---- MODULE Spec2Model ----
(***************************************************************************)
(* A model of pg_simple.PgSimple (src/pg_simple/pg_simple.py): the SQL      *)
(* statement builders, the execute() wrapper around the driver's cursor,    *)
(* and the transaction scope (__enter__ / __exit__ / __del__).              *)
(*                                                                         *)
(* SQL text is a sequence of tokens.  A blank is the token " "; a          *)
(* positional placeholder is the token "%s".  An optional argument is       *)
(* None (the empty tuple) or Some(x) (the one-element tuple).              *)
(***************************************************************************)
EXTENDS Integers, Sequences, FiniteSets, TLC

VARIABLES
    pc,           \* "constructed" | "open" | "exited" | "discarded"
    _log,         \* self._log is set
    _log_fmt,     \* self._log_fmt is set
    _connection,  \* self._connection is set
    exc,          \* the exception in flight in the caller ("None": none)
    exc_value,    \* the exc_value __exit__ was called with
    nCalls,       \* API calls the scope body has made
    req,          \* the last API call and its arguments
    outcome,      \* what the driver did in the last API call
    issued,       \* cursor.execute invocations during the last API call
    stmt,         \* the <<sql, params>> the last API call handed to cursor.execute
    raised,       \* the exception the last API call raised ("None": none)
    ret,          \* the cursor accessor whose value the last API call returned
    logged,       \* kinds of messages written to the log
    commits,      \* connection.commit() calls
    rollbacks,    \* connection.rollback() calls
    closes,       \* cursor.close() calls
    puts          \* pool.put_conn() calls

vars == <<pc, _log, _log_fmt, _connection, exc, exc_value, nCalls, req, outcome,
          issued, stmt, raised, ret, logged, commits, rollbacks, closes, puts>>

----------------------------------------------------------------------------
(* Bounds *)

MaxCalls == 1
MaxCols == 2
MaxWhere == 2

----------------------------------------------------------------------------
(* Python values *)

None == <<>>
Some(x) == <<x>>

\* Exception classes that are subclasses of Exception; KeyboardInterrupt and
\* GeneratorExit derive from BaseException only.
ExceptionSubclasses == {"DriverError", "AttributeError", "AssertionError", "NameError", "BodyError"}

\* mutant: the check names the driver's error class only
isinstance_DriverError(e) == e = "DriverError"

isinstance_Exception(e) == e \in ExceptionSubclasses

\* str.join
RECURSIVE str_join(_, _)
str_join(sep, parts) ==
    IF Len(parts) = 0 THEN <<>>
    ELSE IF Len(parts) = 1 THEN parts[1]
    ELSE parts[1] \o sep \o str_join(sep, Tail(parts))

\* [x] * n
RECURSIVE repeat(_, _)
repeat(x, n) == IF n <= 0 THEN <<>> ELSE <<x>> \o repeat(x, n - 1)

\* dict.keys() and dict.values(); a dict is its items in insertion order
keys(data) == [i \in 1..Len(data) |-> data[i][1]]
values(data) == [i \in 1..Len(data) |-> data[i][2]]

\* each name as a one-token text
texts(names) == [i \in 1..Len(names) |-> <<names[i]>>]

----------------------------------------------------------------------------
(* Clause builders *)

Order == {"Order.DESC", "Order.ASC"}
Order_value(d) == IF d = "Order.DESC" THEN "DESC" ELSE "ASC"

\* a build step: the exception it raised ("None": none) and the text it built
Built(e, t) == [err |-> e, text |-> t]

\* mutant: one placeholder short
_format_insert_OneShort(data) ==
    [cols |-> str_join(<<",">>, texts(data)),
     vals |-> str_join(<<",">>, texts(repeat("%s", Len(data) - 1)))]

_format_insert(data) ==
    [cols |-> str_join(<<",">>, texts(data)),
     vals |-> str_join(<<",">>, texts(repeat("%s", Len(data))))]

_format_update(data) == str_join(<<"=", "%s", ",">>, texts(data)) \o <<"=", "%s">>

_where(where) ==
    IF where # None
    THEN IF Len(where) = 2
         THEN [err |-> "None", clause |-> <<"WHERE", " ">> \o where[1], vals |-> where[2]]
         ELSE [err |-> "AssertionError", clause |-> <<>>, vals |-> <<>>]
    ELSE [err |-> "None", clause |-> <<>>, vals |-> <<>>]

_order(order) ==
    IF order # None
    THEN IF Len(order) > 2 THEN Built("AssertionError", <<>>)
         ELSE IF Len(order) > 1
              THEN IF order[2] \in Order
                   THEN Built("None", <<" ", "ORDER BY", " ", order[1], " ", Order_value(order[2])>>)
                   ELSE Built("AssertionError", <<>>)
              ELSE Built("None", <<" ", "ORDER BY", " ", order[1]>>)
    ELSE Built("None", <<>>)

_limit(limit) ==
    IF limit # None /\ limit[1] # 0 THEN <<" ", "LIMIT", " ", ToString(limit[1])>> ELSE <<>>

_offset(offset) ==
    IF offset # None /\ offset[1] # 0 THEN <<" ", "OFFSET", " ", ToString(offset[1])>> ELSE <<>>

_returning(returning) ==
    IF returning # None THEN <<" ", "RETURNING", " ", returning[1]>> ELSE <<>>

----------------------------------------------------------------------------
(* Statement assembly.  A built call is the exception raised before the     *)
(* driver was reached ("None": none), the statement and parameters handed   *)
(* to self.execute, and the cursor accessor the call returns on success.    *)

Raise(e) == [err |-> e, sql |-> <<>>, params |-> <<>>, ret |-> "none"]
Stmt(sql, params, r) == [err |-> "None", sql |-> sql, params |-> params, ret |-> r]

\* the names bound at module level in pg_simple.py
ModuleGlobals == {"__author__", "time", "namedtuple", "logging", "os", "Enum",
                  "DictCursor", "NamedTupleCursor", "Order", "PgSimple"}

_insert(table, data, returning) ==
    LET f == _format_insert(keys(data))
    IN  <<"INSERT INTO", " ", table, " ", "(">> \o f.cols \o <<")", " ", "VALUES", "(">>
            \o f.vals \o <<")", " ">> \o _returning(returning)

insert(table, data, returning) ==
    Stmt(_insert(table, data, returning), values(data),
         IF returning # None THEN "fetchone" ELSE "rowcount")

_update(table, data, w_clause, returning) ==
    <<"UPDATE", " ", table, " ", "SET", " ">> \o _format_update(keys(data)) \o <<" ">>
        \o w_clause \o <<" ">> \o _returning(returning)

\* mutant: the where values are put before the column values
update_WhereFirst(table, data, where, returning) ==
    IF ~(Len(keys(data)) > 0) THEN Raise("AssertionError")
    ELSE LET w == _where(where)
         IN  IF w.err # "None" THEN Raise(w.err)
             ELSE Stmt(_update(table, data, w.clause, returning), w.vals \o values(data),
                       IF returning # None THEN "fetchall" ELSE "rowcount")

\* mutant: the column map is not checked to be non-empty
update_NoAssert(table, data, where, returning) ==
    LET w == _where(where)
    IN  IF w.err # "None" THEN Raise(w.err)
        ELSE Stmt(_update(table, data, w.clause, returning), values(data) \o w.vals,
                  IF returning # None THEN "fetchall" ELSE "rowcount")

update(table, data, where, returning) ==
    IF ~(Len(keys(data)) > 0) THEN Raise("AssertionError")
    ELSE LET w == _where(where)
         IN  IF w.err # "None" THEN Raise(w.err)
             ELSE Stmt(_update(table, data, w.clause, returning), values(data) \o w.vals,
                       IF returning # None THEN "fetchall" ELSE "rowcount")

delete(table, where, returning) ==
    LET w == _where(where)
    IN  IF w.err # "None" THEN Raise(w.err)
        ELSE IF "_delete" \notin ModuleGlobals THEN Raise("NameError")
        ELSE Stmt(<<"DELETE FROM", " ", table, " ">> \o w.clause \o <<" ">> \o _returning(returning),
                  w.vals, IF returning # None THEN "fetchall" ELSE "rowcount")

_select(table, fields, where, order, limit, offset) ==
    LET w == _where(where)
        o == _order(order)
    IN  IF w.err # "None" THEN Raise(w.err)
        ELSE IF o.err # "None" THEN Raise(o.err)
        ELSE Stmt(<<"SELECT", " ">> \o str_join(<<",">>, texts(fields)) \o <<" ", "FROM", " ", table, " ">>
                      \o w.clause \o <<" ">> \o o.text \o <<" ">> \o _limit(limit)
                      \o <<" ">> \o _offset(offset),
                  w.vals, "cursor")

\* what the caller gets from the cursor a successful call returned
Returning(b, accessor) == IF b.err = "None" THEN [b EXCEPT !.ret = accessor] ELSE b

\* the default fields='*' is a str: join iterates its characters
DefaultFields == <<"*">>

fetchone(table, fields, where, order, offset) ==
    Returning(_select(table, IF fields = None THEN DefaultFields ELSE fields[1],
                      where, order, Some(1), offset), "fetchone")

fetchall(table, fields, where, order, limit, offset) ==
    Returning(_select(table, IF fields = None THEN DefaultFields ELSE fields[1],
                      where, order, limit, offset), "fetchall")

\* mutant: the fields are not qualified with their table
qualify_Bare(table, fs) == texts(fs)

qualify(table, fs) == [i \in 1..Len(fs) |-> <<table, ".", fs[i]>>]

_join_sql(tables, fields, join_fields, w_clause, order, limit, offset) ==
    IF ~(Len(tables) = Len(fields) /\ Len(fields) = Len(join_fields)) THEN Built("AssertionError", <<>>)
    ELSE IF Len(tables) # 2 \/ Len(fields) # 2 \/ Len(join_fields) # 2 THEN Built("AssertionError", <<>>)
    ELSE LET f_table1 == qualify(tables[1], fields[1])
             f_table2 == qualify(tables[2], fields[2])
             o == _order(order)
         IN  IF o.err # "None" THEN Built(o.err, <<>>)
             ELSE Built("None",
                    <<"SELECT", " ">> \o str_join(<<",">>, f_table1 \o f_table2)
                        \o <<" ", "FROM", " ", tables[1], " ", "LEFT JOIN", " ", tables[2], " ", "ON", " ", "(">>
                        \o <<tables[1], ".", join_fields[1]>> \o <<" ", "=", " ">>
                        \o <<tables[2], ".", join_fields[2]>> \o <<")">>
                        \o w_clause \o <<" ">> \o o.text \o <<" ">> \o _limit(limit)
                        \o <<" ">> \o _offset(offset))

_join(tables, fields, join_fields, where, order, limit, offset) ==
    LET w == _where(where)
    IN  IF w.err # "None" THEN Raise(w.err)
        ELSE LET b == _join_sql(tables, fields, join_fields, w.clause, order, limit, offset)
             IN  IF b.err # "None" THEN Raise(b.err) ELSE Stmt(b.text, w.vals, "cursor")

join(tables, fields, join_fields, where, order, limit, offset) ==
    Returning(_join(tables, fields, join_fields, where, order, limit, offset), "rows")

----------------------------------------------------------------------------
(* The execution wrapper *)

\* what cursor.execute may do: return, raise a driver error (whose class may
\* or may not define a `message` attribute), or be interrupted
DriverOutcomes == {"ok", "error", "error_with_message", "interrupt"}

DriverRaises(drv) ==
    CASE drv = "ok" -> "None"
      [] drv = "interrupt" -> "KeyboardInterrupt"
      [] OTHER -> "DriverError"

\* whether e.message exists on the exception the driver raised
HasMessage(drv) == drv = "error_with_message"

\* _debug_write: the message kinds that reach the log
_debug_write(msg) == IF _log THEN {msg} ELSE {}

_log_cursor == IF ~_log THEN {} ELSE _debug_write("query")

_log_error == IF ~_log THEN {} ELSE _debug_write("error")

\* PgSimple.execute: the exception that leaves it and the messages it logs
execute(drv) ==
    LET e == DriverRaises(drv)
    IN  IF e = "None"
        THEN [raised |-> "None", msgs |-> IF _log /\ _log_fmt THEN _log_cursor ELSE {}]
        ELSE IF ~isinstance_Exception(e)
        THEN [raised |-> e, msgs |-> {}]
        ELSE IF _log /\ _log_fmt
             THEN IF HasMessage(drv)
                  THEN [raised |-> e, msgs |-> _log_error]
                  ELSE [raised |-> "AttributeError", msgs |-> {}]
             ELSE [raised |-> e, msgs |-> {}]

----------------------------------------------------------------------------
(* Inputs *)

Tables == {"t1", "t2"}
Cols == {"c" \o ToString(i) : i \in 1..MaxCols}

\* lists of distinct elements of S, of length up to n
DistinctLists(S, n) ==
    UNION {{q \in [1..k -> S] : \A i, j \in 1..k : i # j => q[i] # q[j]} : k \in 0..n}

FieldLists == DistinctLists(Cols, MaxCols)

ValueOf(k) == "v_" \o k

ColumnMaps == {[i \in 1..Len(ks) |-> <<ks[i], ValueOf(ks[i])>>] : ks \in FieldLists}

\* a condition with n placeholders: k1 = %s and k2 = %s ...
CondText(n) ==
    str_join(<<" ", "and", " ">>, [i \in 1..n |-> <<"k" \o ToString(i), " ", "=", " ", "%s">>])

WhereVals(m) == [i \in 1..m |-> "w" \o ToString(i)]

\* where is absent, or a (condition, values) pair with one value per
\* placeholder of the condition, as the callers' contract has it
Wheres == {None} \cup {<<CondText(n), WhereVals(n)>> : n \in 0..MaxWhere}

\* a direction is a member of the Order enum, or (here "DESC") a plain str
Orders == {None, <<"c1">>, <<"c1", "Order.ASC">>, <<"c2", "Order.DESC">>, <<"c1", "DESC">>}

Limits == {None, Some(0), Some(5)}

Returnings == {None, Some("id")}

\* join() arguments: the two-table shape with its field groups, and shapes
\* of other arities
JoinShapes ==
    {[tables |-> t, fields |-> <<g1, g2>>, join_fields |-> j] :
        t \in {<<"t1", "t2">>, <<"t2", "t1">>}, g1 \in FieldLists,
        g2 \in {<<>>, <<"c1">>, <<"c2", "c1">>}, j \in {<<"id", "ref">>, <<"ref", "id">>}}
    \cup
    {[tables |-> SubSeq(<<"t1", "t2", "t3">>, 1, a), fields |-> SubSeq(<<<<"c1">>, <<"c2">>, <<"c1">>>>, 1, b),
      join_fields |-> SubSeq(<<"id", "ref", "id">>, 1, c)] :
        a \in 0..3, b \in 0..3, c \in 0..3}

JoinOrders == {None, <<"c1", "Order.DESC">>, <<"c1", "DESC">>}

JoinLimits == {None, Some(5)}

RawStatements == {<<"SELECT", " ", "1">>}

----------------------------------------------------------------------------
(* The state machine *)

Init ==
    /\ pc = "constructed"
    /\ _log \in BOOLEAN
    /\ _log_fmt \in BOOLEAN
    /\ _connection = TRUE
    /\ exc = "None"
    /\ exc_value = "None"
    /\ nCalls = 0
    /\ req = [op |-> "none"]
    /\ outcome = "none"
    /\ issued = 0
    /\ stmt = <<<<>>, <<>>>>
    /\ raised = "None"
    /\ ret = "none"
    /\ logged = {}
    /\ commits = 0
    /\ rollbacks = 0
    /\ closes = 0
    /\ puts = 0

__enter__ ==
    /\ pc = "constructed"
    /\ pc' = "open"
    /\ UNCHANGED <<_log, _log_fmt, _connection, exc, exc_value, nCalls, req, outcome,
                   issued, stmt, raised, ret, logged, commits, rollbacks, closes, puts>>

\* One API call made by the scope body: r is the call, b what it built, drv
\* what the driver does if it is reached.  An exception the call raises is
\* in flight in the body from then on.
CanCall == pc = "open" /\ exc = "None" /\ nCalls < MaxCalls

\* a statement builder is applied as the first call of a scope body
FirstCall == CanCall /\ nCalls = 0

Call(r, b, drv) ==
    /\ CanCall
    /\ nCalls' = nCalls + 1
    /\ req' = r
    /\ IF b.err # "None"
       THEN /\ issued' = 0
            /\ outcome' = "none"
            /\ stmt' = <<<<>>, <<>>>>
            /\ raised' = b.err
            /\ ret' = "none"
            /\ UNCHANGED logged
       ELSE LET x == execute(drv)
            IN  /\ issued' = 1
                /\ outcome' = drv
                /\ stmt' = <<b.sql, b.params>>
                /\ raised' = x.raised
                /\ ret' = IF x.raised = "None" THEN b.ret ELSE "none"
                /\ logged' = logged \cup x.msgs
    /\ exc' = raised'
    /\ UNCHANGED <<pc, _log, _log_fmt, _connection, exc_value, commits, rollbacks, closes, puts>>

Execute ==
    /\ CanCall
    /\ \E sql \in RawStatements, drv \in DriverOutcomes :
        Call([op |-> "execute", sql |-> sql], Stmt(sql, None, "cursor"), drv)

FetchOne ==
    /\ FirstCall
    /\ \E t \in Tables, f \in {None} \cup {Some(l) : l \in FieldLists}, w \in Wheres, o \in Orders,
          off \in Limits, drv \in DriverOutcomes :
        Call([op |-> "fetchone", table |-> t, fields |-> f, where |-> w, order |-> o,
              limit |-> Some(1), offset |-> off],
             fetchone(t, f, w, o, off), drv)

FetchAll ==
    /\ FirstCall
    /\ \E t \in Tables, f \in {None} \cup {Some(l) : l \in FieldLists}, w \in Wheres, o \in Orders,
          lim \in Limits, off \in Limits, drv \in DriverOutcomes :
        Call([op |-> "fetchall", table |-> t, fields |-> f, where |-> w, order |-> o,
              limit |-> lim, offset |-> off],
             fetchall(t, f, w, o, lim, off), drv)

Join ==
    /\ FirstCall
    /\ \E j \in JoinShapes, w \in Wheres, o \in JoinOrders, lim \in JoinLimits, off \in JoinLimits,
          drv \in DriverOutcomes :
        Call([op |-> "join", tables |-> j.tables, fields |-> j.fields, join_fields |-> j.join_fields,
              where |-> w, order |-> o, limit |-> lim, offset |-> off],
             join(j.tables, j.fields, j.join_fields, w, o, lim, off), drv)

Insert ==
    /\ FirstCall
    /\ \E t \in Tables, data \in ColumnMaps, r \in Returnings, drv \in DriverOutcomes :
        Call([op |-> "insert", table |-> t, data |-> data, returning |-> r],
             insert(t, data, r), drv)

Update ==
    /\ FirstCall
    /\ \E t \in Tables, data \in ColumnMaps, w \in Wheres, r \in Returnings, drv \in DriverOutcomes :
        Call([op |-> "update", table |-> t, data |-> data, where |-> w, returning |-> r],
             update(t, data, w, r), drv)

Delete ==
    /\ FirstCall
    /\ \E t \in Tables, w \in Wheres, r \in Returnings, drv \in DriverOutcomes :
        Call([op |-> "delete", table |-> t, where |-> w, returning |-> r],
             delete(t, w, r), drv)

\* the scope body raises by itself, or the caller is cancelled
BodyRaise ==
    \E e \in {"BodyError", "KeyboardInterrupt", "GeneratorExit"} :
        /\ pc = "open"
        /\ exc = "None"
        /\ exc' = e
        /\ UNCHANGED <<pc, _log, _log_fmt, _connection, exc_value, nCalls, req, outcome,
                       issued, stmt, raised, ret, logged, commits, rollbacks, closes, puts>>

\* __exit__(exc_type, exc_value, traceback); ok: connection.commit() or
\* connection.rollback() returns rather than raises
__exit__ ==
    \E ok \in BOOLEAN :
        /\ pc = "open"
        /\ pc' = "exited"
        /\ exc_value' = exc
        /\ IF ~isinstance_Exception(exc)
           THEN /\ logged' = logged \cup _debug_write("commit")
                /\ commits' = commits + 1
                /\ UNCHANGED rollbacks
           ELSE /\ logged' = logged \cup _debug_write("rollback")
                /\ rollbacks' = rollbacks + 1
                /\ UNCHANGED commits
        /\ IF ok
           THEN closes' = closes + 1 /\ UNCHANGED exc
           ELSE exc' = "DriverError" /\ UNCHANGED closes
        /\ UNCHANGED <<_log, _log_fmt, _connection, nCalls, req, outcome,
                       issued, stmt, raised, ret, puts>>

__del__ ==
    /\ pc = "exited"
    /\ pc' = "discarded"
    /\ puts' = IF _connection THEN puts + 1 ELSE puts
    /\ UNCHANGED <<_log, _log_fmt, _connection, exc, exc_value, nCalls, req, outcome,
                   issued, stmt, raised, ret, logged, commits, rollbacks, closes>>

\* The transaction scope: construction, entry, raw execute() calls in the
\* body, exit and disposal.
Next ==
    \/ __enter__
    \/ Execute
    \/ BodyRaise
    \/ __exit__
    \/ __del__

Spec == Init /\ [][Next]_vars

\* The statement builders, called in the body of an entered scope.
NextBuild ==
    \/ __enter__
    \/ FetchOne
    \/ FetchAll
    \/ Join
    \/ Insert
    \/ Update
    \/ Delete

SpecBuild == Init /\ [][NextBuild]_vars

----------------------------------------------------------------------------
(* Reading a statement text *)

\* the text without its blanks
Words(text) == SelectSeq(text, LAMBDA t : t # " ")

\* the text without its blanks and commas
Items(text) == SelectSeq(text, LAMBDA t : t \notin {" ", ","})

Placeholders(text) == Len(SelectSeq(text, LAMBDA t : t = "%s"))

\* for each placeholder of the text, in order, the name it is compared with
\* or assigned to: the nearest name to its left
Owners(text) ==
    LET at == SelectSeq([i \in 1..Len(text) |-> i], LAMBDA i : text[i] = "%s")
        names(i) == {j \in 1..(i - 1) : text[j] \notin {" ", "=", ",", "%s"}}
        last(S) == CHOOSE j \in S : \A k \in S : k <= j
    IN  [n \in 1..Len(at) |-> text[last(names(at[n]))]]

WhereCondition(where) == IF where = None THEN <<>> ELSE where[1]
WhereValues(where) == IF where = None THEN <<>> ELSE where[2]

DriverFailed == outcome \in {"error", "error_with_message"}

Exited == pc \in {"exited", "discarded"}

----------------------------------------------------------------------------
(* The transaction scope *)

\* C1: a scope that is entered, makes an execute() call whose driver call
\* fails, and is then exited and discarded has called rollback() exactly
\* once and commit() never, and has returned the connection to the pool
\* exactly once (at disposal, never before).
C1_FailedExecuteRollsBack ==
    (Exited /\ req.op = "execute" /\ DriverFailed) =>
        /\ rollbacks = 1
        /\ commits = 0
        /\ puts = (IF pc = "discarded" THEN 1 ELSE 0)

C1_Witness ==
    /\ pc = "discarded"
    /\ nCalls = 1
    /\ req.op = "execute"
    /\ DriverFailed
    /\ rollbacks = 1
    /\ puts = 1

\* C2: every scope that was entered, exited and discarded has closed its
\* cursor exactly once and released its connection exactly once, on every
\* exit path, including one where commit() or rollback() itself fails.
C2_ClosedAndReleasedOnce ==
    pc = "discarded" => closes = 1 /\ puts = 1

\* C3: a scope commits only on normal exit: left with no raised condition it
\* has called commit() exactly once and rollback() never; left with any
\* raised condition in flight, cancellation included, it has called
\* rollback() exactly once and commit() never.
C3_CommitOnlyOnNormalExit ==
    Exited =>
        IF exc_value = "None"
        THEN commits = 1 /\ rollbacks = 0
        ELSE rollbacks = 1 /\ commits = 0

\* C7: under every logging configuration, when cursor.execute fails inside
\* execute() the driver was invoked exactly once in that call and the
\* failure that reaches the caller is the driver's failure.
C7_DriverFailureReachesCaller ==
    (req.op = "execute" /\ DriverFailed) => issued = 1 /\ raised = "DriverError"

----------------------------------------------------------------------------
(* The statement builders *)

ValidOrder(order) == Len(order) < 2 \/ (Len(order) = 2 /\ order[2] \in Order)

\* C4: update() with a non-empty column map hands the driver the map's
\* values in column order followed by the where values in where order, and
\* a text whose placeholders are the SET placeholders, one per column in
\* column order, followed by the where placeholders.
C4_UpdateParamsFollowPlaceholders ==
    (req.op = "update" /\ Len(req.data) > 0) =>
        /\ issued = 1
        /\ stmt[2] = values(req.data) \o WhereValues(req.where)
        /\ Owners(stmt[1]) = keys(req.data) \o Owners(WhereCondition(req.where))
        /\ Placeholders(stmt[1]) = Len(stmt[2])

C4_Witness ==
    /\ req.op = "update"
    /\ Len(req.data) = 2
    /\ Len(WhereValues(req.where)) = 2
    /\ issued = 1
    /\ stmt[2] = <<"v_c2", "v_c1", "w1", "w2">>

\* C5: a call that fails while the statement is built never reaches the
\* driver: update() with an empty column map, join() whose tables, field
\* groups or join fields are not exactly two each, and a select or join
\* whose order direction is not an Order member all raise with
\* cursor.execute not invoked.
C5_BuildErrorsNeverReachDriver ==
    (\/ req.op = "update" /\ Len(req.data) = 0
     \/ req.op = "join" /\ ~(Len(req.tables) = 2 /\ Len(req.fields) = 2 /\ Len(req.join_fields) = 2)
     \/ req.op \in {"fetchone", "fetchall", "join"} /\ ~ValidOrder(req.order)) =>
        /\ raised = "AssertionError"
        /\ issued = 0
        /\ stmt = <<<<>>, <<>>>>

C5_Witness ==
    /\ req.op = "update"
    /\ Len(req.data) = 0
    /\ req.where # None
    /\ raised = "AssertionError"
    /\ issued = 0

\* C6: delete() issues exactly one statement, DELETE FROM <table> <where>
\* <returning>, with the where values only as its parameters, and returns
\* the fetched rows when returning is given and the row count otherwise.
C6_DeleteIssuesOneStatement ==
    req.op = "delete" =>
        /\ issued = 1
        /\ Words(stmt[1]) = <<"DELETE FROM", req.table>>
                \o (IF req.where = None THEN <<>> ELSE <<"WHERE">> \o Words(req.where[1]))
                \o (IF req.returning = None THEN <<>> ELSE <<"RETURNING", req.returning[1]>>)
        /\ stmt[2] = WhereValues(req.where)
        /\ outcome = "ok" => ret = (IF req.returning = None THEN "rowcount" ELSE "fetchall")

\* C8: insert() lists the columns in the map's order, writes exactly one
\* placeholder per column, and hands the driver the map's values in that
\* same order.
C8_InsertColumnsPlaceholdersValues ==
    req.op = "insert" =>
        /\ issued = 1
        /\ Items(stmt[1]) = <<"INSERT INTO", req.table, "(">> \o keys(req.data)
                \o <<")", "VALUES", "(">> \o [i \in 1..Len(req.data) |-> "%s"] \o <<")">>
                \o (IF req.returning = None THEN <<>> ELSE <<"RETURNING", req.returning[1]>>)
        /\ stmt[2] = values(req.data)

C8_Witness ==
    /\ req.op = "insert"
    /\ issued = 1
    /\ keys(req.data) = <<"c2", "c1">>
    /\ stmt[2] = <<"v_c2", "v_c1">>

\* the clause a limit or offset contributes
Bounded(keyword, n) == IF n = None \/ n = Some(0) THEN <<>> ELSE <<keyword, ToString(n[1])>>

OrderClause(order) ==
    IF order = None THEN <<>>
    ELSE IF Len(order) = 1 THEN <<"ORDER BY", order[1]>>
    ELSE <<"ORDER BY", order[1], Order_value(order[2])>>

\* C9: the SELECT issued by fetchone/fetchall is SELECT, the comma-joined
\* fields (* when the field list is empty or absent), FROM the table, then
\* the WHERE, ORDER BY, LIMIT and OFFSET fragments, each present exactly
\* when supplied, and nothing else; it has as many placeholders as the
\* where condition, and its parameters are the where values only.
C9_SelectShape ==
    (req.op \in {"fetchone", "fetchall"} /\ ValidOrder(req.order)) =>
        /\ issued = 1
        /\ Words(stmt[1]) = <<"SELECT">>
                \o (IF req.fields = None \/ req.fields = Some(<<>>) THEN <<"*">>
                    ELSE str_join(<<",">>, texts(req.fields[1])))
                \o <<"FROM", req.table>>
                \o (IF req.where = None THEN <<>> ELSE <<"WHERE">> \o Words(req.where[1]))
                \o OrderClause(req.order)
                \o Bounded("LIMIT", req.limit)
                \o Bounded("OFFSET", req.offset)
        /\ Placeholders(stmt[1]) = Placeholders(WhereCondition(req.where))
        /\ stmt[2] = WhereValues(req.where)

\* C10: join() with two tables, two field groups and two join fields selects
\* the fields of group 0 as <t0>.<field> and then those of group 1 as
\* <t1>.<field>, reads FROM <t0> LEFT JOIN <t1> ON (<t0>.<jf0> = <t1>.<jf1>),
\* always as a LEFT JOIN, and its parameters are the where values only.
C10_JoinShape ==
    (/\ req.op = "join"
     /\ Len(req.tables) = 2 /\ Len(req.fields) = 2 /\ Len(req.join_fields) = 2
     /\ ValidOrder(req.order)) =>
        LET t0 == req.tables[1]
            t1 == req.tables[2]
            sel == [i \in 1..Len(req.fields[1]) |-> <<t0, ".", req.fields[1][i]>>]
                    \o [i \in 1..Len(req.fields[2]) |-> <<t1, ".", req.fields[2][i]>>]
            head == <<"SELECT">> \o str_join(<<",">>, sel)
                    \o <<"FROM", t0, "LEFT JOIN", t1, "ON", "(", t0, ".", req.join_fields[1], "=",
                          t1, ".", req.join_fields[2], ")">>
        IN  /\ issued = 1
            /\ Len(Words(stmt[1])) >= Len(head)
            /\ SubSeq(Words(stmt[1]), 1, Len(head)) = head
            /\ Len(SelectSeq(stmt[1], LAMBDA t : t \in {"LEFT JOIN", "INNER JOIN", "RIGHT JOIN", "FULL JOIN", "JOIN"})) = 1
            /\ stmt[2] = WhereValues(req.where)

C10_Witness ==
    /\ req.op = "join"
    /\ req.tables = <<"t2", "t1">>
    /\ req.fields = <<<<"c2", "c1">>, <<"c2", "c1">>>>
    /\ req.join_fields = <<"id", "ref">>
    /\ Len(WhereValues(req.where)) = 2
    /\ issued = 1

====
